---- MODULE Spec2Model ----
(***************************************************************************)
(* AirtableConnect: the Express proxy (server/routes.ts), its in-memory    *)
(* configuration holder (server/storage.ts), the zod schemas               *)
(* (shared/schema.ts), the configuration card of the UI, the record form   *)
(* (client/src/components/record-form.tsx) and the records table with its  *)
(* upload modal (client/src/components/records-table.tsx).                 *)
(***************************************************************************)
EXTENDS Integers, Sequences, FiniteSets, TLC

VARIABLES
    config,     \* MemStorage.config: Unset or the saved AirtableConfig
    remote,     \* the table hosted by the external API: a sequence of records
    last,       \* the HTTP request handled last, what it sent upstream, its response
    lastSave,   \* history: the body of the last POST /config answered {success: true}
    pending,    \* the handlers suspended at an await, with their local variables
    card,       \* AirtableConfig card: the apiKey, baseId and tableName inputs
    dashConfig, \* Dashboard: the config state, null or the triple handed to onConfigSaved
    savedConfig,    \* Dashboard: the data of the ["/api/airtable/config"] query
    savePending,    \* saveConfigMutation: the body in flight, or undefined
    toast,      \* the title of the notification shown last
    fields,     \* RecordForm: the fields prop
    rendered,   \* RecordForm: whether the component function has run
    editableFields, \* RecordForm: the fields rendered as inputs
    inputs,     \* RecordForm: the inputs rendered, one [field, kind] per editable field
    fetched,    \* RecordsTable: airtableData.records, the records fetched last
    stale,      \* the records query was invalidated and is not refetched yet
    searchQuery,    \* RecordsTable: the search text
    displayed,  \* RecordsTable: filteredRecords, the rows rendered
    showCreateForm, \* RecordsTable: the create dialog is open
    editingRecord,  \* RecordsTable: null or the record in the edit dialog
    formData,   \* the mounted RecordForm's formData, or undefined when none is mounted
    showUploadModal,    \* RecordsTable: the upload dialog is open
    uploadRecordId, \* RecordsTable: the record the upload dialog was opened for
    availableFields,    \* UploadModal: the availableFields prop
    selectedFile,   \* UploadModal: null or the file selected
    inflight,   \* the mutation requests sent and not answered yet, in the order sent
    lastCall    \* history: the request apiRequest was called with last

serverVars == <<config, remote, last, lastSave, pending>>
cardVars == <<card, dashConfig, savedConfig, savePending, toast>>
formVars == <<fields, rendered, editableFields, inputs>>
tableVars ==
    <<fetched, stale, searchQuery, displayed, showCreateForm, editingRecord, formData>>
uploadVars == <<showUploadModal, uploadRecordId, availableFields, selectedFile>>
netVars == <<inflight, lastCall>>
uiVars == <<tableVars, uploadVars, netVars>>
vars == <<serverVars, cardVars, formVars, uiVars>>

(***************************************************************************)
(* JSON values, as express.json() hands them to the handlers.              *)
(***************************************************************************)
JUndef == [t |-> "undefined"]
JNull == [t |-> "null"]
JStr(s) == [t |-> "string", v |-> s]
JNum(n) == [t |-> "number", v |-> n]
JBool(b) == [t |-> "boolean", v |-> b]
JArr(a) == [t |-> "array", v |-> a]
JObj(m) == [t |-> "object", v |-> m]

IsStr(j) == j.t = "string"
IsObj(j) == j.t = "object"
Has(j, k) == IsObj(j) /\ k \in DOMAIN j.v

\* MemStorage's constructor: this.config = undefined
Unset == [t |-> "undefined"]

ConfigKeys == {"apiKey", "baseId", "tableName"}

(***************************************************************************)
(* shared/schema.ts                                                        *)
(***************************************************************************)
\* z.string() without .min(1)
NonEmptyString_anyString(j) == IsStr(j)

\* z.string().min(1, ...)
NonEmptyString(j) == IsStr(j) /\ Len(j.v) >= 1

\* every key .optional(): a body with a component missing parses
airtableConfigSchema_optional(body) ==
    IF IsObj(body) /\ \A k \in ConfigKeys : Has(body, k) => NonEmptyString(body.v[k])
    THEN [ok |-> TRUE,
          value |-> [k \in ConfigKeys |-> IF Has(body, k) THEN body.v[k].v ELSE ""]]
    ELSE [ok |-> FALSE, value |-> "ZodError"]

\* airtableConfigSchema.parse: every key a non-empty string, unknown keys stripped;
\* throws (ok = FALSE) otherwise
airtableConfigSchema(body) ==
    IF IsObj(body) /\ \A k \in ConfigKeys : Has(body, k) /\ NonEmptyString(body.v[k])
    THEN [ok |-> TRUE, value |-> [k \in ConfigKeys |-> body.v[k].v]]
    ELSE [ok |-> FALSE, value |-> "ZodError"]

\* createRecordSchema / updateRecordSchema: {fields: z.record(z.any())}, unknown keys stripped
recordSchema(body) ==
    IF Has(body, "fields") /\ IsObj(body.v["fields"])
    THEN [ok |-> TRUE, value |-> JObj([k \in {"fields"} |-> body.v["fields"]])]
    ELSE [ok |-> FALSE, value |-> "ZodError"]

\* z.string().url(): the string parses as a URL
IsUrl(s) == s \in {"https://example.com/uploads/a.png", "https://example.com/uploads/b.pdf"}

\* url: z.string() without .url()
uploadAttachmentSchema_anyUrl(body) ==
    IF /\ Has(body, "url") /\ IsStr(body.v["url"])
       /\ Has(body, "filename") => IsStr(body.v["filename"])
    THEN [ok |-> TRUE,
          value |-> JObj([k \in (DOMAIN body.v) \cap {"url", "filename"} |-> body.v[k]])]
    ELSE [ok |-> FALSE, value |-> "ZodError"]

\* uploadAttachmentSchema: {url: z.string().url(), filename: z.string().optional()},
\* unknown keys stripped
uploadAttachmentSchema(body) ==
    IF /\ Has(body, "url") /\ IsStr(body.v["url"]) /\ IsUrl(body.v["url"].v)
       /\ Has(body, "filename") => IsStr(body.v["filename"])
    THEN [ok |-> TRUE,
          value |-> JObj([k \in (DOMAIN body.v) \cap {"url", "filename"} |-> body.v[k]])]
    ELSE [ok |-> FALSE, value |-> "ZodError"]

(***************************************************************************)
(* server/storage.ts                                                       *)
(***************************************************************************)
\* a holder that falls back to built-in credentials while nothing is saved
getAirtableConfig_default ==
    IF config = [t |-> "undefined"]
    THEN [apiKey |-> "patA", baseId |-> "app1", tableName |-> "Bugs"]
    ELSE config

getAirtableConfig == config

\* Object.assign(this.config, ...): the key of an earlier save survives
saveAirtableConfig_merge(c) ==
    IF config = [t |-> "undefined"] THEN c ELSE [c EXCEPT !.apiKey = config.apiKey]

\* this.config = config: the holder after the call
saveAirtableConfig(c) == c

(***************************************************************************)
(* The external tabular-data API (spec section 6): one hosted table, which *)
(* answers a request with a success and its effect, with a non-success     *)
(* status and an error text, or not at all (the call throws).              *)
(***************************************************************************)
MaxRecords == 1

HostedKey == "patA"
HostedBase == "app1"
HostedTable == "Bugs"

RecIds == {"rec" \o ToString(i) : i \in 1..MaxRecords}

IndexOf(id) == {i \in 1..Len(remote) : remote[i].id = id}

RecordJson(r) == JObj([id |-> JStr(r.id), fields |-> JObj(r.fields)])

\* PATCH semantics of the provider: the fields given are set, the others kept
MergeFields(old, new) ==
    [k \in (DOMAIN old) \cup (DOMAIN new) |-> IF k \in DOMAIN new THEN new[k] ELSE old[k]]

Remove(seq, i) == [j \in 1..(Len(seq) - 1) |-> IF j < i THEN seq[j] ELSE seq[j + 1]]

Reply(kind, status, text, data, table) ==
    [kind |-> kind, status |-> status, text |-> text, data |-> data, remote |-> table]

Addressed(request) ==
    /\ request.auth = "Bearer " \o HostedKey
    /\ request.url[1] = HostedBase
    /\ request.url[2] = HostedTable

\* what the provider does with an accepted request: the answers and the table after
Accepted(request) ==
    IF ~Addressed(request) THEN {}
    ELSE IF request.method = "GET" THEN
        {Reply("response", 200, "",
               JObj([records |-> JArr([i \in 1..Len(remote) |-> RecordJson(remote[i])])]),
               remote)}
    ELSE IF request.method = "POST" THEN
        {Reply("response", 200, "", RecordJson([id |-> id, fields |-> request.body.v["fields"].v]),
               Append(remote, [id |-> id, fields |-> request.body.v["fields"].v])) :
            id \in {x \in RecIds : Len(remote) < MaxRecords /\ IndexOf(x) = {}}}
    ELSE IF request.method = "PATCH" THEN
        {Reply("response", 200, "",
               RecordJson([id |-> remote[i].id,
                           fields |-> MergeFields(remote[i].fields, request.body.v["fields"].v)]),
               [remote EXCEPT ![i].fields = MergeFields(@, request.body.v["fields"].v)]) :
            i \in IndexOf(request.url[3])}
    ELSE IF request.method = "DELETE" THEN
        {Reply("response", 200, "",
               JObj([deleted |-> JBool(TRUE), id |-> JStr(request.url[3])]),
               Remove(remote, i)) :
            i \in IndexOf(request.url[3])}
    ELSE {}

ErrorReplies ==
    {Reply("response", 404, "NOT_FOUND", JUndef, remote),
     Reply("response", 422, "INVALID_REQUEST", JUndef, remote)}

\* fetch(url, init): the replies the call can end with
fetch(request) ==
    Accepted(request) \cup ErrorReplies \cup {Reply("throw", 0, "fetch failed", JUndef, remote)}

(***************************************************************************)
(* server/routes.ts                                                        *)
(***************************************************************************)
\* Express dispatches a request to the first registered route that matches it;
\* a path is the list of segments after /api/airtable
Route(method, path) ==
    IF method = "POST" /\ path = <<"config">> THEN "postConfig"
    ELSE IF method = "GET" /\ path = <<"config">> THEN "getConfig"
    ELSE IF method = "GET" /\ Len(path) = 1 THEN "list"
    ELSE IF method = "POST" /\ Len(path) = 1 THEN "create"
    ELSE IF method = "PATCH" /\ Len(path) = 2 THEN "update"
    ELSE IF method = "DELETE" /\ Len(path) = 2 THEN "delete"
    ELSE IF method = "POST" /\ Len(path) = 4 /\ path[3] = "attachment" THEN "attach"
    ELSE "none"

ProxyHandlers == {"list", "create", "update", "delete", "attach"}

\* { error: message }
ErrorBody(message) == JObj([error |-> JStr(message)])

\* res.json(config || null)
ConfigJson(c) == IF c = Unset THEN JNull ELSE JObj([k \in ConfigKeys |-> JStr(c[k])])

\* response.ok
ok(reply) == reply.status >= 200 /\ reply.status <= 299

\* the request a handler passes to fetch: method, url (base, table and record
\* segments), Authorization header and JSON body
Request(method, url, apiKey, body) ==
    [method |-> method, url |-> url, auth |-> "Bearer " \o apiKey, body |-> body]

NoUpstream == [kind |-> "none", status |-> 0, text |-> ""]

Handled(method, path, body, handler, sent, upstream, status, resBody) ==
    last' = [method |-> method, path |-> path, body |-> body, handler |-> handler,
             sent |-> sent, upstream |-> upstream, status |-> status, resBody |-> resBody]

\* return res.status(status).json({ error }) before any fetch
Refuse(method, path, body, handler, status, message) ==
    /\ Handled(method, path, body, handler, << >>, NoUpstream, status, ErrorBody(message))
    /\ UNCHANGED <<config, remote, lastSave>>

\* a non-success answer reported as a generic 500
Relay_generic(reply, catchStatus) ==
    IF reply.kind = "throw"
    THEN [status |-> catchStatus, body |-> ErrorBody(reply.text)]
    ELSE IF ~ok(reply)
    THEN [status |-> 500, body |-> ErrorBody("Airtable API error: " \o reply.text)]
    ELSE [status |-> 200, body |-> reply.data]

\* what a handler answers to the outcome of its fetch call; catchStatus is the
\* status its catch block sets
Relay(reply, catchStatus) ==
    IF reply.kind = "throw"
    THEN [status |-> catchStatus, body |-> ErrorBody(reply.text)]
    ELSE IF ~ok(reply)
    THEN [status |-> reply.status, body |-> ErrorBody("Airtable API error: " \o reply.text)]
    ELSE [status |-> 200, body |-> reply.data]

\* the table name of the request kept in the holder
Forward_cache(method, path, body, handler, request, catchStatus) ==
    \E reply \in fetch(request) :
        /\ remote' = reply.remote
        /\ Handled(method, path, body, handler, <<request>>,
                   [kind |-> reply.kind, status |-> reply.status, text |-> reply.text],
                   Relay(reply, catchStatus).status, Relay(reply, catchStatus).body)
        /\ config' = [config EXCEPT !.tableName = path[1]]
        /\ UNCHANGED lastSave

\* await fetch(...), then the answer
Forward(method, path, body, handler, request, catchStatus) ==
    \E reply \in fetch(request) :
        /\ remote' = reply.remote
        /\ Handled(method, path, body, handler, <<request>>,
                   [kind |-> reply.kind, status |-> reply.status, text |-> reply.text],
                   Relay(reply, catchStatus).status, Relay(reply, catchStatus).body)
        /\ UNCHANGED <<config, lastSave>>

\* app.post("/api/airtable/config")
PostConfig(body) ==
    LET parsed == airtableConfigSchema(body) IN
    /\ Route("POST", <<"config">>) = "postConfig"
    /\ IF parsed.ok
       THEN /\ config' = saveAirtableConfig(parsed.value)
            /\ lastSave' = body
            /\ Handled("POST", <<"config">>, body, "postConfig", << >>, NoUpstream,
                       200, JObj([success |-> JBool(TRUE)]))
            /\ UNCHANGED remote
       ELSE Refuse("POST", <<"config">>, body, "postConfig", 400, parsed.value)

\* app.get("/api/airtable/config")
GetConfig ==
    /\ Route("GET", <<"config">>) = "getConfig"
    /\ Handled("GET", <<"config">>, JUndef, "getConfig", << >>, NoUpstream,
               200, ConfigJson(getAirtableConfig))
    /\ UNCHANGED <<config, remote, lastSave>>

\* app.get("/api/airtable/:tableName")
ListRecords(tableName) ==
    LET cfg == getAirtableConfig
        path == <<tableName>> IN
    /\ Route("GET", path) = "list"
    /\ IF cfg = Unset
       THEN Refuse("GET", path, JUndef, "list", 400, "Airtable not configured")
       ELSE Forward("GET", path, JUndef, "list",
                    Request("GET", <<cfg.baseId, tableName>>, cfg.apiKey, JUndef), 500)

\* app.post("/api/airtable/:tableName")
CreateRecord(tableName, body) ==
    LET cfg == getAirtableConfig
        path == <<tableName>>
        recordData == recordSchema(body) IN
    /\ Route("POST", path) = "create"
    /\ IF cfg = Unset
       THEN Refuse("POST", path, body, "create", 400, "Airtable not configured")
       ELSE IF ~recordData.ok
       THEN Refuse("POST", path, body, "create", 400, recordData.value)
       ELSE Forward("POST", path, body, "create",
                    Request("POST", <<cfg.baseId, tableName>>, cfg.apiKey, recordData.value),
                    400)

\* the update forwarded with the unparsed request body
UpdateRecord_rawBody(tableName, recordId, body) ==
    LET cfg == getAirtableConfig
        path == <<tableName, recordId>>
        recordData == recordSchema(body) IN
    /\ Route("PATCH", path) = "update"
    /\ IF cfg = Unset
       THEN Refuse("PATCH", path, body, "update", 400, "Airtable not configured")
       ELSE IF ~recordData.ok
       THEN Refuse("PATCH", path, body, "update", 400, recordData.value)
       ELSE Forward("PATCH", path, body, "update",
                    Request("PATCH", <<cfg.baseId, tableName, recordId>>, cfg.apiKey, body),
                    400)

\* app.patch("/api/airtable/:tableName/:recordId")
UpdateRecord(tableName, recordId, body) ==
    LET cfg == getAirtableConfig
        path == <<tableName, recordId>>
        recordData == recordSchema(body) IN
    /\ Route("PATCH", path) = "update"
    /\ IF cfg = Unset
       THEN Refuse("PATCH", path, body, "update", 400, "Airtable not configured")
       ELSE IF ~recordData.ok
       THEN Refuse("PATCH", path, body, "update", 400, recordData.value)
       ELSE Forward("PATCH", path, body, "update",
                    Request("PATCH", <<cfg.baseId, tableName, recordId>>, cfg.apiKey,
                            recordData.value),
                    400)

\* app.delete("/api/airtable/:tableName/:recordId")
DeleteRecord(tableName, recordId) ==
    LET cfg == getAirtableConfig
        path == <<tableName, recordId>> IN
    /\ Route("DELETE", path) = "delete"
    /\ IF cfg = Unset
       THEN Refuse("DELETE", path, JUndef, "delete", 400, "Airtable not configured")
       ELSE Forward("DELETE", path, JUndef, "delete",
                    Request("DELETE", <<cfg.baseId, tableName, recordId>>, cfg.apiKey, JUndef),
                    500)

\* the attachment sent bare, not wrapped in a list
UploadAttachment_bare(tableName, recordId, fieldName, body) ==
    LET cfg == getAirtableConfig
        path == <<tableName, recordId, "attachment", fieldName>>
        attachmentData == uploadAttachmentSchema(body) IN
    /\ Route("POST", path) = "attach"
    /\ IF cfg = Unset
       THEN Refuse("POST", path, body, "attach", 400, "Airtable not configured")
       ELSE IF ~attachmentData.ok
       THEN Refuse("POST", path, body, "attach", 400, attachmentData.value)
       ELSE Forward("POST", path, body, "attach",
                    Request("PATCH", <<cfg.baseId, tableName, recordId>>, cfg.apiKey,
                            JObj([k \in {"fields"} |->
                                  JObj([f \in {fieldName} |-> attachmentData.value])])),
                    400)

\* app.post("/api/airtable/:tableName/:recordId/attachment/:fieldName")
UploadAttachment(tableName, recordId, fieldName, body) ==
    LET cfg == getAirtableConfig
        path == <<tableName, recordId, "attachment", fieldName>>
        attachmentData == uploadAttachmentSchema(body) IN
    /\ Route("POST", path) = "attach"
    /\ IF cfg = Unset
       THEN Refuse("POST", path, body, "attach", 400, "Airtable not configured")
       ELSE IF ~attachmentData.ok
       THEN Refuse("POST", path, body, "attach", 400, attachmentData.value)
       ELSE Forward("POST", path, body, "attach",
                    Request("PATCH", <<cfg.baseId, tableName, recordId>>, cfg.apiKey,
                            JObj([k \in {"fields"} |->
                                  JObj([f \in {fieldName} |-> JArr(<<attachmentData.value>>)])])),
                    400)

(***************************************************************************)
(* The requests checked.                                                   *)
(***************************************************************************)
TableNames == {"Bugs", "config"}

Obj1(k, x) == JObj([i \in {k} |-> x])

ConfigBody(a, b, n) == JObj([apiKey |-> JStr(a), baseId |-> JStr(b), tableName |-> JStr(n)])

ValidConfigs ==
    {ConfigBody("patA", "app1", "Bugs"), ConfigBody("patB", "app2", "config")}

\* a valid body with one component missing, empty or not a string
Damaged(c) ==
    {JObj([k \in ConfigKeys \ {d} |-> c.v[k]]) : d \in ConfigKeys}
    \cup {JObj([c.v EXCEPT ![d] = x]) : d \in ConfigKeys, x \in {JStr(""), JNum(7)}}

SomeConfig == ConfigBody("patA", "app1", "Bugs")

StatusClosed == [Status |-> JStr("Closed")]

RecordBodies ==
    {Obj1("fields", JObj(StatusClosed)),
     Obj1("fields", JObj(<< >>)),
     JObj([fields |-> JObj(StatusClosed), typecast |-> JBool(TRUE)]),
     JObj(<< >>),
     Obj1("fields", JStr("Closed"))}

ConfigBodies ==
    ValidConfigs \cup Damaged(SomeConfig)
    \cup {JObj([apiKey |-> JStr("patB"), baseId |-> JStr("app2"), tableName |-> JStr("Bugs"),
                note |-> JStr("x")]),
          JUndef, Obj1("fields", JObj(StatusClosed))}

UrlA == "https://example.com/uploads/a.png"
UrlB == "https://example.com/uploads/b.pdf"

AttachmentBodies ==
    {JObj([url |-> JStr(UrlA), filename |-> JStr("a.png")]),
     JObj([url |-> JStr(UrlA), filename |-> JStr("a.png"), size |-> JNum(3)]),
     Obj1("url", JStr("a.png")),
     Obj1("filename", JStr("a.png"))}

AttachFields == {"Photo", "Docs"}

SeedRecord ==
    [id |-> "rec1",
     fields |-> [Status |-> JStr("Open"), Notes |-> JStr("n1"),
                 Photo |-> JArr(<<Obj1("url", JStr(UrlB)),
                                  JObj([url |-> JStr(UrlA), filename |-> JStr("old.png")])>>)]]

NoRequest ==
    [method |-> "-", path |-> << >>, body |-> JUndef, handler |-> "none",
     sent |-> << >>, upstream |-> NoUpstream, status |-> 0, resBody |-> JUndef]

InitServer ==
    /\ config = Unset
    /\ remote \in {<< >>, <<SeedRecord>>}
    /\ last = NoRequest
    /\ pending = << >>
    /\ lastSave = JUndef

InitCard ==
    /\ card = [apiKey |-> "", baseId |-> "", tableName |-> ""]
    /\ dashConfig = JNull
    /\ savedConfig = JUndef
    /\ savePending = JUndef
    /\ toast = ""

InitForm ==
    /\ fields = << >>
    /\ rendered = FALSE
    /\ editableFields = << >>
    /\ inputs = << >>

NoCall == [method |-> "-", path |-> << >>, body |-> JUndef]

\* no RecordsTable is mounted: the Dashboard shows the table only once config is set
InitUi ==
    /\ fetched = << >>
    /\ stale = FALSE
    /\ searchQuery = ""
    /\ displayed = << >>
    /\ showCreateForm = FALSE
    /\ editingRecord = JNull
    /\ formData = JUndef
    /\ showUploadModal = FALSE
    /\ uploadRecordId = ""
    /\ availableFields = << >>
    /\ selectedFile = JNull
    /\ inflight = << >>
    /\ lastCall = NoCall

Init == InitServer /\ InitCard /\ InitForm /\ InitUi

Next ==
    \/ \E body \in ConfigBodies : PostConfig(body) /\ UNCHANGED <<pending, cardVars, formVars, uiVars>>
    \/ GetConfig /\ UNCHANGED <<pending, cardVars, formVars, uiVars>>
    \/ \E t \in TableNames : ListRecords(t) /\ UNCHANGED <<pending, cardVars, formVars, uiVars>>
    \/ \E t \in TableNames, body \in RecordBodies :
           CreateRecord(t, body) /\ UNCHANGED <<pending, cardVars, formVars, uiVars>>
    \/ \E id \in RecIds, body \in RecordBodies :
           UpdateRecord(HostedTable, id, body) /\ UNCHANGED <<pending, cardVars, formVars, uiVars>>
    \/ \E id \in RecIds : DeleteRecord(HostedTable, id) /\ UNCHANGED <<pending, cardVars, formVars, uiVars>>
    \/ \E id \in RecIds, f \in AttachFields, body \in AttachmentBodies :
           UploadAttachment(HostedTable, id, f, body) /\ UNCHANGED <<pending, cardVars, formVars, uiVars>>

Spec == Init /\ [][Next]_vars

(***************************************************************************)
(* The handlers step by step: an async handler runs up to an await, and    *)
(* other requests are handled before it goes on.                           *)
(***************************************************************************)
MaxPending == 2

Suspended(op, method, path, body, cfg) ==
    [op |-> op, method |-> method, path |-> path, body |-> body, cfg |-> cfg]

\* POST /config up to its await: the body is parsed and saveAirtableConfig has
\* assigned this.config; a body that does not parse is answered at once
BeginSave(body) ==
    LET parsed == airtableConfigSchema(body) IN
    IF parsed.ok
    THEN /\ Len(pending) < MaxPending
         /\ config' = saveAirtableConfig(parsed.value)
         /\ pending' = Append(pending, Suspended("save", "POST", <<"config">>, body, Unset))
         /\ UNCHANGED <<remote, last, lastSave>>
    ELSE /\ Refuse("POST", <<"config">>, body, "postConfig", 400, parsed.value)
         /\ UNCHANGED pending

\* POST /config after its await: res.json({ success: true })
EndSave(i) ==
    /\ pending[i].op = "save"
    /\ pending' = Remove(pending, i)
    /\ lastSave' = pending[i].body
    /\ Handled("POST", <<"config">>, pending[i].body, "postConfig", << >>, NoUpstream,
               200, JObj([success |-> JBool(TRUE)]))
    /\ UNCHANGED <<config, remote>>

\* list or update up to its first await: const config = await storage.getAirtableConfig()
ReadHolder(method, path, body) ==
    /\ Route(method, path) \in {"list", "update"}
    /\ Len(pending) < MaxPending
    /\ pending' = Append(pending, Suspended("proxy", method, path, body, getAirtableConfig))
    /\ UNCHANGED <<config, remote, last, lastSave>>

\* the key read from the holder again when the request is built
Resume_rereads(i) ==
    LET p == pending[i]
        handler == Route(p.method, p.path)
        recordData == recordSchema(p.body) IN
    /\ p.op = "proxy"
    /\ pending' = Remove(pending, i)
    /\ IF p.cfg = Unset
       THEN Refuse(p.method, p.path, p.body, handler, 400, "Airtable not configured")
       ELSE IF handler = "list"
       THEN Forward("GET", p.path, JUndef, "list",
                    Request("GET", <<p.cfg.baseId, p.path[1]>>, getAirtableConfig.apiKey, JUndef),
                    500)
       ELSE IF ~recordData.ok
       THEN Refuse("PATCH", p.path, p.body, "update", 400, recordData.value)
       ELSE Forward("PATCH", p.path, p.body, "update",
                    Request("PATCH", <<p.cfg.baseId, p.path[1], p.path[2]>>,
                            getAirtableConfig.apiKey, recordData.value),
                    400)

\* list or update after the await, with the config it read: the Configuration test,
\* the body's validation, the request to the external API and the answer
Resume(i) ==
    LET p == pending[i]
        handler == Route(p.method, p.path)
        recordData == recordSchema(p.body) IN
    /\ p.op = "proxy"
    /\ pending' = Remove(pending, i)
    /\ IF p.cfg = Unset
       THEN Refuse(p.method, p.path, p.body, handler, 400, "Airtable not configured")
       ELSE IF handler = "list"
       THEN Forward("GET", p.path, JUndef, "list",
                    Request("GET", <<p.cfg.baseId, p.path[1]>>, p.cfg.apiKey, JUndef), 500)
       ELSE IF ~recordData.ok
       THEN Refuse("PATCH", p.path, p.body, "update", 400, recordData.value)
       ELSE Forward("PATCH", p.path, p.body, "update",
                    Request("PATCH", <<p.cfg.baseId, p.path[1], p.path[2]>>, p.cfg.apiKey,
                            recordData.value),
                    400)

NextRace ==
    \/ \E body \in ValidConfigs \cup {JUndef} :
           BeginSave(body) /\ UNCHANGED <<cardVars, formVars, uiVars>>
    \/ \E i \in 1..Len(pending) : EndSave(i) /\ UNCHANGED <<cardVars, formVars, uiVars>>
    \/ ReadHolder("GET", <<HostedTable>>, JUndef) /\ UNCHANGED <<cardVars, formVars, uiVars>>
    \/ \E id \in RecIds :
           ReadHolder("PATCH", <<HostedTable, id>>, Obj1("fields", JObj(StatusClosed)))
               /\ UNCHANGED <<cardVars, formVars, uiVars>>
    \/ \E i \in 1..Len(pending) : Resume(i) /\ UNCHANGED <<cardVars, formVars, uiVars>>

SpecRace == Init /\ [][NextRace]_vars

(***************************************************************************)
(* client: the Dashboard page and its AirtableConfig card.                 *)
(***************************************************************************)
EmptyCard == [apiKey |-> "", baseId |-> "", tableName |-> ""]

KeyInputs == {"", "patA", "patB"}
BaseInputs == {"", "app1"}
TableInputs == {"", "Bugs"}

\* onChange={(e) => setApiKey(e.target.value)}
setApiKey(v) ==
    /\ card' = [card EXCEPT !.apiKey = v]
    /\ UNCHANGED <<serverVars, dashConfig, savedConfig, savePending, toast, formVars, uiVars>>

\* onChange={(e) => setBaseId(e.target.value)}
setBaseId(v) ==
    /\ card' = [card EXCEPT !.baseId = v]
    /\ UNCHANGED <<serverVars, dashConfig, savedConfig, savePending, toast, formVars, uiVars>>

\* onChange={(e) => setTableName(e.target.value)}
setTableName(v) ==
    /\ card' = [card EXCEPT !.tableName = v]
    /\ UNCHANGED <<serverVars, dashConfig, savedConfig, savePending, toast, formVars, uiVars>>

\* handleSave; the button is disabled while the mutation is pending
handleSave ==
    /\ savePending = JUndef
    /\ IF card.apiKey = "" \/ card.baseId = "" \/ card.tableName = ""
       THEN /\ toast' = "Missing Information"
            /\ UNCHANGED savePending
       ELSE /\ savePending' = JObj([k \in ConfigKeys |-> JStr(card[k])])
            /\ UNCHANGED toast
    /\ UNCHANGED <<serverVars, card, dashConfig, savedConfig, formVars, uiVars>>

\* saveConfigMutation: the server handles the POST, then onSuccess or onError
saveConfigMutation ==
    /\ savePending # JUndef
    /\ PostConfig(savePending)
    /\ savePending' = JUndef
    /\ IF last'.status \in 200..299
       THEN /\ dashConfig' = card
            /\ toast' = "Configuration Saved"
       ELSE /\ toast' = "Error"
            /\ UNCHANGED dashConfig
    /\ UNCHANGED <<pending, card, savedConfig, formVars, uiVars>>

\* saveConfigMutation when the request does not reach the server: onError
saveConfigFailed ==
    /\ savePending # JUndef
    /\ savePending' = JUndef
    /\ toast' = "Error"
    /\ UNCHANGED <<serverVars, card, dashConfig, savedConfig, formVars, uiVars>>

\* handleClear
handleClear ==
    /\ card' = EmptyCard
    /\ dashConfig' = EmptyCard
    /\ toast' = "Configuration Cleared"
    /\ UNCHANGED <<serverVars, savedConfig, savePending, formVars, uiVars>>

\* Dashboard's useQuery (enabled: !config), then the card's useEffect on initialConfig
configQuery ==
    /\ dashConfig = JNull
    /\ GetConfig
    /\ savedConfig' = last'.resBody
    /\ IF last'.resBody # JNull
       THEN card' = [k \in ConfigKeys |-> last'.resBody.v[k].v]
       ELSE UNCHANGED card
    /\ UNCHANGED <<pending, dashConfig, savePending, toast, formVars, uiVars>>

\* the page is loaded again: every useState starts over
reload ==
    /\ card' = EmptyCard
    /\ dashConfig' = JNull
    /\ savedConfig' = JUndef
    /\ savePending' = JUndef
    /\ toast' = ""
    /\ UNCHANGED <<serverVars, formVars, uiVars>>

NextCard ==
    \/ \E v \in KeyInputs : setApiKey(v)
    \/ \E v \in BaseInputs : setBaseId(v)
    \/ \E v \in TableInputs : setTableName(v)
    \/ handleSave
    \/ saveConfigMutation
    \/ saveConfigFailed
    \/ handleClear
    \/ configQuery
    \/ reload

SpecCard == Init /\ [][NextCard]_vars

(***************************************************************************)
(* client/src/components/record-form.tsx: the field classifier.            *)
(***************************************************************************)
MaxFields == 2

UpperCase == "ABCDEFGHIJKLMNOPQRSTUVWXYZ"
LowerCase == "abcdefghijklmnopqrstuvwxyz"

Char(s, i) == SubSeq(s, i, i)

LowerChar(c) ==
    IF \E i \in 1..Len(UpperCase) : Char(UpperCase, i) = c
    THEN Char(LowerCase, CHOOSE i \in 1..Len(UpperCase) : Char(UpperCase, i) = c)
    ELSE c

RECURSIVE toLowerCase(_)
toLowerCase(s) ==
    IF s = "" THEN "" ELSE LowerChar(Char(s, 1)) \o toLowerCase(SubSeq(s, 2, Len(s)))

\* s.includes(literal)
Includes(s, literal) ==
    \E i \in 1..(Len(s) - Len(literal) + 1) : SubSeq(s, i, i + Len(literal) - 1) = literal

\* /\([^)]*\)/
Parenthesized(s) ==
    \E i \in 1..Len(s) : \E j \in (i + 1)..Len(s) :
        /\ Char(s, i) = "("
        /\ Char(s, j) = ")"
        /\ \A k \in (i + 1)..(j - 1) : Char(s, k) # ")"

\* /days? (open|since|elapsed)/ on the lower-cased name
DaysPattern(s) ==
    \E d \in {"day ", "days "}, w \in {"open", "since", "elapsed"} : Includes(s, d \o w)

readOnlyPatterns ==
    <<"ai", "summary", "formula", "computed", "calculated",
      "number of", "count", "total", "sum", "average", "max", "min",
      "time elapsed", "duration",
      "created time", "created by", "last modified", "modified by",
      "photo", "image", "picture", "attachment", "file", "document",
      "rollup", "lookup", "reference",
      "auto number", "barcode", "autonumber",
      "severity", "priority level", "bug severity",
      "bug status", "status update", "current status",
      "comment sentiment", "sentiment", "author role">>

\* readOnlyPatterns.some(pattern => pattern.test(field)); a literal pattern with the i
\* flag matches when the lower-cased name includes it
isReadOnlyField(field) ==
    LET fieldLower == toLowerCase(field) IN
    \/ \E p \in 1..Len(readOnlyPatterns) : Includes(fieldLower, readOnlyPatterns[p])
    \/ DaysPattern(fieldLower)
    \/ Parenthesized(field)

\* fields.filter(field => isReadOnlyField(field)): the negation lost
RECURSIVE filterEditable_kept(_)
filterEditable_kept(fs) ==
    IF fs = << >> THEN << >>
    ELSE IF isReadOnlyField(Head(fs))
    THEN <<Head(fs)>> \o filterEditable_kept(Tail(fs))
    ELSE filterEditable_kept(Tail(fs))

\* fields.filter(field => !isReadOnlyField(field))
RECURSIVE filterEditable(_)
filterEditable(fs) ==
    IF fs = << >> THEN << >>
    ELSE IF ~isReadOnlyField(Head(fs))
    THEN <<Head(fs)>> \o filterEditable(Tail(fs))
    ELSE filterEditable(Tail(fs))

\* the notes test moved before the status test
getFieldInput_notesFirst(field) ==
    LET fieldLower == toLowerCase(field) IN
    IF Includes(fieldLower, "description") \/ Includes(fieldLower, "notes") THEN "textarea"
    ELSE IF Includes(fieldLower, "status") THEN "select:Open|In Progress|Closed"
    ELSE IF Includes(fieldLower, "priority") THEN "select:Low|Medium|High"
    ELSE "input"

\* getFieldInput(field): the kind of input returned
getFieldInput(field) ==
    LET fieldLower == toLowerCase(field) IN
    IF Includes(fieldLower, "status") THEN "select:Open|In Progress|Closed"
    ELSE IF Includes(fieldLower, "priority") THEN "select:Low|Medium|High"
    ELSE IF Includes(fieldLower, "description") \/ Includes(fieldLower, "notes") THEN "textarea"
    ELSE "input"

\* editableFields.map((field) => <div key={field}> ... {getFieldInput(field)} </div>)
renderInputs(editable) ==
    [i \in 1..Len(editable) |-> [field |-> editable[i], kind |-> getFieldInput(editable[i])]]

FieldNames ==
    {"Name", "Status", "Notes", "Email", "AI Summary", "Days Open", "Elapsed",
     "Size (MB)", "Photo", "Screenshot", "File Notes", "Priority Level", ")(",
     "Priority", "Status Notes"}

FieldLists == UNION {[1..n -> FieldNames] : n \in 0..MaxFields}

\* the component function runs with its fields prop
RecordForm ==
    /\ rendered' = TRUE
    /\ editableFields' = filterEditable(fields)
    /\ inputs' = renderInputs(editableFields')
    /\ UNCHANGED <<serverVars, cardVars, fields, uiVars>>

\* the form is mounted with a list of field names
InitRecordForm ==
    /\ fields \in FieldLists
    /\ rendered = FALSE
    /\ editableFields = << >>
    /\ inputs = << >>

NextForm == RecordForm

InitFormSpec == InitServer /\ InitCard /\ InitRecordForm /\ InitUi

SpecForm == InitFormSpec /\ [][NextForm]_vars

(***************************************************************************)
(* UploadModal (second component of client/src/components/records-table.tsx): *)
(* the attachment-field ranking.                                           *)
(***************************************************************************)
\* the predicate of imageFields
isImageField(field) ==
    LET fieldLower == toLowerCase(field) IN
    \/ Includes(fieldLower, "image")
    \/ Includes(fieldLower, "photo")
    \/ Includes(fieldLower, "picture")
    \/ Includes(fieldLower, "screenshot")
    \/ Includes(fieldLower, "pic")

\* the predicate of generalAttachmentFields
isGeneralAttachmentField(field) ==
    LET fieldLower == toLowerCase(field) IN
    \/ Includes(fieldLower, "attachment")
    \/ Includes(fieldLower, "file")
    \/ Includes(fieldLower, "document")
    \/ Includes(fieldLower, "upload")

\* availableFields.filter(...) with the image predicate
RECURSIVE imageFields(_)
imageFields(fs) ==
    IF fs = << >> THEN << >>
    ELSE IF isImageField(Head(fs)) THEN <<Head(fs)>> \o imageFields(Tail(fs))
    ELSE imageFields(Tail(fs))

\* availableFields.filter(...) with the general-attachment predicate
RECURSIVE generalAttachmentFields(_)
generalAttachmentFields(fs) ==
    IF fs = << >> THEN << >>
    ELSE IF isGeneralAttachmentField(Head(fs))
    THEN <<Head(fs)>> \o generalAttachmentFields(Tail(fs))
    ELSE generalAttachmentFields(Tail(fs))

\* [...generalAttachmentFields, ...imageFields]: the two sets concatenated the other way
attachmentFields_generalFirst(fs) == generalAttachmentFields(fs) \o imageFields(fs)

\* [...imageFields, ...generalAttachmentFields]
attachmentFields(fs) == imageFields(fs) \o generalAttachmentFields(fs)

\* attachmentFields[0] || "Attachments"
attachmentFieldName(fs) ==
    LET first == attachmentFields(fs) IN
    IF first = << >> \/ first[1] = "" THEN "Attachments" ELSE first[1]

(***************************************************************************)
(* RecordsTable (client/src/components/records-table.tsx), with the        *)
(* RecordForm and UploadModal dialogs it mounts. A fetched record is       *)
(* [id, keys, fields]: keys is Object.keys(record.fields), in JSON order.  *)
(***************************************************************************)
MaxFetched == 2
MaxInFlight == 2

\* the config prop RecordsTable is mounted with
TableConfig == [apiKey |-> "patA", baseId |-> "app1", tableName |-> "Bugs"]

Rec1 ==
    [id |-> "rec1", keys |-> <<"Notes", "Count", "Photo">>,
     fields |-> [Notes |-> JStr(" Open Log"), Count |-> JNum(7),
                 Photo |-> JArr(<<Obj1("url", JStr(UrlA))>>)]]

Rec2 ==
    [id |-> "rec2", keys |-> <<"Name">>, fields |-> [Name |-> JStr("logout")]]

Rec3 ==
    [id |-> "rec3", keys |-> <<"Done">>, fields |-> [Done |-> JBool(TRUE)]]

RecordPool == {Rec1, Rec2, Rec3}

\* the record lists GET /api/airtable/:tableName answers with: no record twice
FetchedLists ==
    {l \in UNION {[1..n -> RecordPool] : n \in 0..MaxFetched} :
        \A i, j \in 1..Len(l) : i # j => l[i].id # l[j].id}

\* [a, b].join(",") over the elements already converted
RECURSIVE Join(_)
Join(texts) ==
    IF texts = << >> THEN ""
    ELSE IF Len(texts) = 1 THEN texts[1]
    ELSE texts[1] \o "," \o Join(Tail(texts))

\* String(value)
RECURSIVE String(_)
String(value) ==
    IF value.t = "string" THEN value.v
    ELSE IF value.t = "number" THEN ToString(value.v)
    ELSE IF value.t = "boolean" THEN (IF value.v THEN "true" ELSE "false")
    ELSE IF value.t = "array"
    THEN Join([i \in 1..Len(value.v) |->
                  IF value.v[i].t \in {"null", "undefined"} THEN "" ELSE String(value.v[i])])
    ELSE IF value.t = "object" THEN "[object Object]"
    ELSE value.t

\* the filter predicate with the value compared as it is, not lower-cased
matchesSearch_caseSensitive(record, query) ==
    \/ query = ""
    \/ LET searchLower == toLowerCase(query) IN
       \E k \in DOMAIN record.fields : Includes(String(record.fields[k]), searchLower)

\* the predicate of records.filter(...) in filteredRecords
matchesSearch(record, query) ==
    \/ query = ""
    \/ LET searchLower == toLowerCase(query) IN
       \E k \in DOMAIN record.fields :
           Includes(toLowerCase(String(record.fields[k])), searchLower)

SearchTexts == {"", "OPEN", "log", "object"}

\* matchesSearch over the records and search texts checked, evaluated once
SearchHits == [query \in SearchTexts |-> {r \in RecordPool : matchesSearch(r, query)}]

\* records.filter(record => ...)
RECURSIVE filteredRecords(_, _)
filteredRecords(records, query) ==
    IF records = << >> THEN << >>
    ELSE IF Head(records) \in SearchHits[query]
    THEN <<Head(records)>> \o filteredRecords(Tail(records), query)
    ELSE filteredRecords(Tail(records), query)

\* isReadOnlyField over the field names of the records checked, evaluated once
readOnlyField ==
    [f \in UNION {DOMAIN r.fields : r \in RecordPool} |-> isReadOnlyField(f)]

\* Object.keys(sampleRecord.fields)
fieldNames == IF fetched = << >> THEN << >> ELSE fetched[1].keys

\* 10 * 1024 * 1024
FileSizeLimit == 10 * 1024 * 1024

Pow1024(i) == IF i = 0 THEN 1 ELSE IF i = 1 THEN 1024 ELSE IF i = 2 THEN 1024 * 1024
              ELSE 1024 * 1024 * 1024

sizes == <<"Bytes", "KB", "MB", "GB">>

\* formatFileSize(bytes): bytes / 1024^i to at most two decimals, then the unit
formatFileSize(bytes) ==
    IF bytes = 0 THEN "0 Bytes"
    ELSE LET i == CHOOSE n \in 0..3 : Pow1024(n) <= bytes /\ (n = 3 \/ bytes < Pow1024(n + 1))
             hundredths == (bytes * 100 + Pow1024(i) \div 2) \div Pow1024(i)
             whole == ToString(hundredths \div 100)
             frac == hundredths % 100
             digits == IF frac = 0 THEN ""
                       ELSE IF frac % 10 = 0 THEN "." \o ToString(frac \div 10)
                       ELSE IF frac < 10 THEN ".0" \o ToString(frac)
                       ELSE "." \o ToString(frac) IN
         whole \o digits \o " " \o sizes[i + 1]

\* the files the user can pick: one at the limit, one a byte over it
Files ==
    {[name |-> "a.png", size |-> FileSizeLimit],
     [name |-> "big.pdf", size |-> FileSizeLimit + 1]}

\* the mutation requests in flight: live is set while the component that sent the
\* request is still mounted (its isPending is what disables the submit button)
Sent(kind) == [kind |-> kind, live |-> TRUE]

Call(method, path, body) == [method |-> method, path |-> path, body |-> body]

\* createMutation.isPending || updateMutation.isPending of the mounted form
isLoading ==
    \E i \in 1..Len(inflight) : inflight[i].kind \in {"create", "update"} /\ inflight[i].live

\* uploadMutation.isPending of the mounted UploadModal
uploadPending ==
    \E i \in 1..Len(inflight) : inflight[i].kind = "upload" /\ inflight[i].live

\* the dialogs are modal: while one is open the page behind it takes no input
NoDialog == ~showCreateForm /\ editingRecord = JNull /\ ~showUploadModal

\* RecordsTable returns the "No Records Found" card, and nothing else, while the
\* fetched collection is empty; the table and the three dialogs are JSX of the
\* return statement after it
TableView(records) == records # << >>

\* a RecordForm is mounted: one of its dialogs is rendered and open
FormOpen == TableView(fetched) /\ (showCreateForm \/ editingRecord # JNull)

\* the UploadModal is rendered and open
UploadOpen == TableView(fetched) /\ showUploadModal

\* components unmount: their state is dropped and their mutations (kinds) have no
\* observer any more
Unmounted(reqs, kinds) ==
    [i \in 1..Len(reqs) |->
        IF reqs[i].kind \in kinds THEN [reqs[i] EXCEPT !.live = FALSE] ELSE reqs[i]]

FormKinds == {"create", "update"}

Settle(i) == Remove(inflight, i)

\* setSearchQuery(e.target.value), then the render
setSearchQuery(q) ==
    /\ fetched # << >>
    /\ NoDialog
    /\ searchQuery' = q
    /\ displayed' = filteredRecords(fetched, q)
    /\ UNCHANGED <<fetched, stale, showCreateForm, editingRecord, formData>>
    /\ UNCHANGED <<serverVars, cardVars, formVars, uploadVars, netVars>>

\* handleDelete(record.id): deleteRecordMutation.mutate(recordId), whatever is pending
handleDelete(recordId) ==
    /\ NoDialog
    /\ \E i \in 1..Len(displayed) : displayed[i].id = recordId
    /\ Len(inflight) < MaxInFlight
    /\ inflight' = Append(inflight, Sent("delete"))
    /\ lastCall' = Call("DELETE", <<TableConfig.tableName, recordId>>, JUndef)
    /\ UNCHANGED <<serverVars, cardVars, formVars, tableVars, uploadVars>>

\* onSuccess without queryClient.invalidateQueries
deleteSuccess_noInvalidate(i) ==
    /\ inflight[i].kind = "delete"
    /\ inflight' = Settle(i)
    /\ toast' = "Record Deleted"
    /\ UNCHANGED <<serverVars, card, dashConfig, savedConfig, savePending, formVars,
                   tableVars, uploadVars, lastCall>>

\* deleteRecordMutation.onSuccess
deleteSuccess(i) ==
    /\ inflight[i].kind = "delete"
    /\ inflight' = Settle(i)
    /\ stale' = TRUE
    /\ toast' = "Record Deleted"
    /\ UNCHANGED <<fetched, searchQuery, displayed, showCreateForm, editingRecord, formData>>
    /\ UNCHANGED <<serverVars, card, dashConfig, savedConfig, savePending, formVars,
                   uploadVars, lastCall>>

\* deleteRecordMutation.onError
deleteError(i) ==
    /\ inflight[i].kind = "delete"
    /\ inflight' = Settle(i)
    /\ toast' = "Error"
    /\ UNCHANGED <<serverVars, card, dashConfig, savedConfig, savePending, formVars,
                   tableVars, uploadVars, lastCall>>

\* refreshData
refreshData ==
    /\ fetched # << >>
    /\ NoDialog
    /\ stale' = TRUE
    /\ toast' = "Data Refreshed"
    /\ UNCHANGED <<fetched, searchQuery, displayed, showCreateForm, editingRecord, formData>>
    /\ UNCHANGED <<serverVars, card, dashConfig, savedConfig, savePending, formVars,
                   uploadVars, netVars>>

\* the invalidated records query is fetched again and the table renders its answer;
\* the answers checked turn the collection empty only while no dialog is open
refetch(records) ==
    /\ stale
    /\ fetched' = records
    /\ ~TableView(fetched') => NoDialog
    /\ stale' = FALSE
    /\ displayed' = filteredRecords(fetched', searchQuery)
    /\ IF TableView(fetched) = TableView(fetched')
       THEN UNCHANGED <<formData, selectedFile, inflight>>
       ELSE IF TableView(fetched')
       THEN \* the dialogs are rendered again: an open create dialog mounts its form
            /\ formData' = IF showCreateForm THEN JObj(<< >>) ELSE JUndef
            /\ UNCHANGED <<selectedFile, inflight>>
       ELSE \* the empty card replaces the table and the closed dialogs: the
            \* UploadModal unmounts with its state and its mutation's observer
            /\ selectedFile' = JNull
            /\ inflight' = Unmounted(inflight, {"upload"})
            /\ UNCHANGED formData
    /\ UNCHANGED <<searchQuery, showCreateForm, editingRecord>>
    /\ UNCHANGED <<serverVars, cardVars, formVars, showUploadModal, uploadRecordId,
                   availableFields, lastCall>>

\* the Create New trigger: setShowCreateForm(true); RecordForm mounts with
\* initialValues = {}
openCreateForm ==
    /\ fetched # << >>
    /\ NoDialog
    /\ showCreateForm' = TRUE
    /\ formData' = JObj(<< >>)
    /\ UNCHANGED <<fetched, stale, searchQuery, displayed, editingRecord>>
    /\ UNCHANGED <<serverVars, cardVars, formVars, uploadVars, netVars>>

\* the Create First Record button of the "No Records Found" card:
\* setShowCreateForm(true)
createFirstRecord ==
    /\ ~TableView(fetched)
    /\ showCreateForm' = TRUE
    /\ UNCHANGED <<fetched, stale, searchQuery, displayed, editingRecord, formData>>
    /\ UNCHANGED <<serverVars, cardVars, formVars, uploadVars, netVars>>

\* handleEdit(record): RecordForm mounts with initialValues = record.fields
handleEdit(record) ==
    /\ NoDialog
    /\ \E i \in 1..Len(displayed) : displayed[i] = record
    /\ editingRecord' = record
    /\ formData' = JObj(record.fields)
    /\ UNCHANGED <<fetched, stale, searchQuery, displayed, showCreateForm>>
    /\ UNCHANGED <<serverVars, cardVars, formVars, uploadVars, netVars>>

\* the form's Cancel button or the dialog dismissed: onSuccess() / onOpenChange(false)
closeForm ==
    /\ FormOpen
    /\ showCreateForm' = FALSE
    /\ editingRecord' = JNull
    /\ formData' = JUndef
    /\ inflight' = Unmounted(inflight, FormKinds)
    /\ UNCHANGED <<fetched, stale, searchQuery, displayed>>
    /\ UNCHANGED <<serverVars, cardVars, formVars, uploadVars, lastCall>>

\* handleChange(field, value), from the input rendered for an editable field
handleChange(field, value) ==
    /\ FormOpen
    /\ \E i \in 1..Len(fieldNames) : fieldNames[i] = field /\ ~readOnlyField[field]
    /\ formData' = JObj([k \in (DOMAIN formData.v) \cup {field} |->
                            IF k = field THEN JStr(value) ELSE formData.v[k]])
    /\ UNCHANGED <<fetched, stale, searchQuery, displayed, showCreateForm, editingRecord>>
    /\ UNCHANGED <<serverVars, cardVars, formVars, uploadVars, netVars>>

Whitespace == {" "}

\* value.trim()
RECURSIVE trim(_)
trim(s) ==
    IF s = "" THEN ""
    ELSE IF Char(s, 1) \in Whitespace THEN trim(SubSeq(s, 2, Len(s)))
    ELSE IF Char(s, Len(s)) \in Whitespace THEN trim(SubSeq(s, 1, Len(s) - 1))
    ELSE s

\* editableData with the strings as typed
editableData_untrimmed(data) ==
    LET sent == {k \in DOMAIN data :
                    /\ ~readOnlyField[k]
                    /\ data[k].t \notin {"null", "undefined"}
                    /\ data[k] # JStr("")} IN
    [k \in sent |-> data[k]]

\* editableData over every key of formData, the read-only ones included
editableData_allKeys(data) ==
    LET sent == {k \in DOMAIN data :
                    /\ data[k].t \notin {"null", "undefined"}
                    /\ data[k] # JStr("")} IN
    [k \in sent |-> IF data[k].t = "string" THEN JStr(trim(data[k].v)) ELSE data[k]]

\* editableData: the keys of formData that are not read-only and whose value is not
\* null, undefined or '', strings trimmed
editableData(data) ==
    LET sent == {k \in DOMAIN data :
                    /\ ~readOnlyField[k]
                    /\ data[k].t \notin {"null", "undefined"}
                    /\ data[k] # JStr("")} IN
    [k \in sent |-> IF data[k].t = "string" THEN JStr(trim(data[k].v)) ELSE data[k]]

\* handleSubmit; the submit button is disabled while isLoading
handleSubmit ==
    /\ FormOpen
    /\ ~isLoading
    /\ IF DOMAIN editableData(formData.v) = {}
       THEN /\ toast' = "No Data to Save"
            /\ UNCHANGED netVars
       ELSE /\ Len(inflight) < MaxInFlight
            /\ IF editingRecord # JNull
               THEN /\ inflight' = Append(inflight, Sent("update"))
                    /\ lastCall' = Call("PATCH", <<TableConfig.tableName, editingRecord.id>>,
                                        Obj1("fields", JObj(editableData(formData.v))))
               ELSE /\ inflight' = Append(inflight, Sent("create"))
                    /\ lastCall' = Call("POST", <<TableConfig.tableName>>,
                                        Obj1("fields", JObj(editableData(formData.v))))
            /\ UNCHANGED toast
    /\ UNCHANGED <<serverVars, card, dashConfig, savedConfig, savePending, formVars,
                   tableVars, uploadVars>>

\* createMutation.onSuccess: invalidate, toast, onSuccess() = setShowCreateForm(false)
createSuccess(i) ==
    /\ inflight[i].kind = "create"
    /\ stale' = TRUE
    /\ toast' = "Record Created"
    /\ showCreateForm' = FALSE
    /\ IF showCreateForm
       THEN formData' = JUndef /\ inflight' = Unmounted(Settle(i), FormKinds)
       ELSE UNCHANGED formData /\ inflight' = Settle(i)
    /\ UNCHANGED <<fetched, searchQuery, displayed, editingRecord>>
    /\ UNCHANGED <<serverVars, card, dashConfig, savedConfig, savePending, formVars,
                   uploadVars, lastCall>>

\* updateMutation.onSuccess: invalidate, toast, onSuccess() = setEditingRecord(null)
updateSuccess(i) ==
    /\ inflight[i].kind = "update"
    /\ stale' = TRUE
    /\ toast' = "Record Updated"
    /\ editingRecord' = JNull
    /\ IF editingRecord # JNull
       THEN formData' = JUndef /\ inflight' = Unmounted(Settle(i), FormKinds)
       ELSE UNCHANGED formData /\ inflight' = Settle(i)
    /\ UNCHANGED <<fetched, searchQuery, displayed, showCreateForm>>
    /\ UNCHANGED <<serverVars, card, dashConfig, savedConfig, savePending, formVars,
                   uploadVars, lastCall>>

\* onError closing the dialog as onSuccess does
formError_closes(i) ==
    /\ inflight[i].kind \in {"create", "update"}
    /\ toast' = "Error"
    /\ showCreateForm' = FALSE
    /\ editingRecord' = JNull
    /\ formData' = JUndef
    /\ inflight' = Unmounted(Settle(i), FormKinds)
    /\ UNCHANGED <<fetched, stale, searchQuery, displayed>>
    /\ UNCHANGED <<serverVars, card, dashConfig, savedConfig, savePending, formVars,
                   uploadVars, lastCall>>

\* createMutation.onError / updateMutation.onError
formError(i) ==
    /\ inflight[i].kind \in {"create", "update"}
    /\ inflight' = Settle(i)
    /\ toast' = "Error"
    /\ UNCHANGED <<serverVars, card, dashConfig, savedConfig, savePending, formVars,
                   tableVars, uploadVars, lastCall>>

\* RecordsTable's handleUpload(record.id): the paperclip button of a row
handleUpload(recordId) ==
    /\ NoDialog
    /\ \E i \in 1..Len(displayed) : displayed[i].id = recordId
    /\ uploadRecordId' = recordId
    /\ showUploadModal' = TRUE
    /\ UNCHANGED <<availableFields, selectedFile>>
    /\ UNCHANGED <<serverVars, cardVars, formVars, tableVars, netVars>>

\* the limit test written with >=
handleFileSelect_atLimit(file) ==
    /\ UploadOpen
    /\ IF file.size >= FileSizeLimit
       THEN /\ toast' = "File Too Large"
            /\ UNCHANGED selectedFile
       ELSE /\ selectedFile' = [file |-> file, name |-> file.name,
                                size |-> formatFileSize(file.size)]
            /\ UNCHANGED toast
    /\ UNCHANGED <<showUploadModal, uploadRecordId, availableFields>>
    /\ UNCHANGED <<serverVars, card, dashConfig, savedConfig, savePending, formVars,
                   tableVars, netVars>>

\* handleFileSelect(file), from handleFileInput or handleDrop
handleFileSelect(file) ==
    /\ UploadOpen
    /\ IF file.size > FileSizeLimit
       THEN /\ toast' = "File Too Large"
            /\ UNCHANGED selectedFile
       ELSE /\ selectedFile' = [file |-> file, name |-> file.name,
                                size |-> formatFileSize(file.size)]
            /\ UNCHANGED toast
    /\ UNCHANGED <<showUploadModal, uploadRecordId, availableFields>>
    /\ UNCHANGED <<serverVars, card, dashConfig, savedConfig, savePending, formVars,
                   tableVars, netVars>>

\* removeFile
removeFile ==
    /\ UploadOpen
    /\ selectedFile # JNull
    /\ selectedFile' = JNull
    /\ UNCHANGED <<showUploadModal, uploadRecordId, availableFields>>
    /\ UNCHANGED <<serverVars, cardVars, formVars, tableVars, netVars>>

\* the body uploadMutation's mutationFn posts: the mock URL and the file's name
UploadBody(file) ==
    JObj([url |-> JStr("https://example.com/uploads/" \o file.name),
          filename |-> JStr(file.name)])

\* UploadModal's handleUpload; the button is disabled without a file or while pending
UploadModal_handleUpload ==
    /\ UploadOpen
    /\ selectedFile # JNull
    /\ ~uploadPending
    /\ IF Len(attachmentFields(availableFields)) = 0
       THEN /\ toast' = "No Attachment Field"
            /\ UNCHANGED netVars
       ELSE /\ Len(inflight) < MaxInFlight
            /\ inflight' = Append(inflight, Sent("upload"))
            /\ lastCall' = Call("POST",
                                <<TableConfig.tableName, uploadRecordId, "attachment",
                                  attachmentFieldName(availableFields)>>,
                                UploadBody(selectedFile.file))
            /\ UNCHANGED toast
    /\ UNCHANGED <<serverVars, card, dashConfig, savedConfig, savePending, formVars,
                   tableVars, uploadVars>>

\* uploadMutation.onSuccess
uploadSuccess(i) ==
    /\ inflight[i].kind = "upload"
    /\ inflight' = Settle(i)
    /\ stale' = TRUE
    /\ toast' = "File Uploaded"
    /\ selectedFile' = IF inflight[i].live THEN JNull ELSE selectedFile
    /\ showUploadModal' = FALSE
    /\ UNCHANGED <<fetched, searchQuery, displayed, showCreateForm, editingRecord, formData>>
    /\ UNCHANGED <<serverVars, card, dashConfig, savedConfig, savePending, formVars,
                   uploadRecordId, availableFields, lastCall>>

\* uploadMutation.onError
uploadError(i) ==
    /\ inflight[i].kind = "upload"
    /\ inflight' = Settle(i)
    /\ toast' = "Upload Failed"
    /\ UNCHANGED <<serverVars, card, dashConfig, savedConfig, savePending, formVars,
                   tableVars, uploadVars, lastCall>>

\* the upload dialog's Cancel button or the dialog dismissed: onOpenChange(false)
closeUpload ==
    /\ UploadOpen
    /\ showUploadModal' = FALSE
    /\ UNCHANGED <<uploadRecordId, availableFields, selectedFile>>
    /\ UNCHANGED <<serverVars, cardVars, formVars, tableVars, netVars>>

TypedValues == {"", " ", " n2 "}

\* RecordsTable as the Dashboard mounts it, its first fetch answered: UploadModal is
\* given no availableFields, so the prop is its default []
InitTable ==
    /\ config = TableConfig
    /\ remote = <<SeedRecord>>
    /\ last = NoRequest
    /\ pending = << >>
    /\ lastSave = ConfigBody("patA", "app1", "Bugs")
    /\ card = TableConfig
    /\ dashConfig = TableConfig
    /\ savedConfig = JUndef
    /\ savePending = JUndef
    /\ toast = ""
    /\ InitForm
    /\ fetched \in FetchedLists
    /\ stale = FALSE
    /\ searchQuery = ""
    /\ displayed = fetched
    /\ showCreateForm = FALSE
    /\ editingRecord = JNull
    /\ formData = JUndef
    /\ showUploadModal = FALSE
    /\ uploadRecordId = ""
    /\ availableFields = << >>
    /\ selectedFile = JNull
    /\ inflight = << >>
    /\ lastCall = NoCall

NextTable ==
    \/ \E q \in SearchTexts : setSearchQuery(q)
    \/ \E r \in RecordPool : handleDelete(r.id)
    \/ \E i \in 1..Len(inflight) : deleteSuccess(i)
    \/ \E i \in 1..Len(inflight) : deleteError(i)
    \/ refreshData
    \/ \E records \in FetchedLists : refetch(records)
    \/ \E r \in RecordPool : handleUpload(r.id)
    \/ \E file \in Files : handleFileSelect(file)
    \/ removeFile
    \/ UploadModal_handleUpload
    \/ closeUpload

SpecTable == InitTable /\ [][NextTable]_vars

\* the form dialogs of the table: create, edit, submit, and the answers
NextSubmit ==
    \/ openCreateForm
    \/ \E r \in RecordPool : handleEdit(r)
    \/ closeForm
    \/ \E i \in 1..Len(fieldNames), value \in TypedValues : handleChange(fieldNames[i], value)
    \/ handleSubmit
    \/ \E i \in 1..Len(inflight) : createSuccess(i)
    \/ \E i \in 1..Len(inflight) : updateSuccess(i)
    \/ \E i \in 1..Len(inflight) : formError(i)

\* the table with one record fetched
InitSubmit ==
    /\ config = TableConfig
    /\ remote = <<SeedRecord>>
    /\ last = NoRequest
    /\ pending = << >>
    /\ lastSave = ConfigBody("patA", "app1", "Bugs")
    /\ card = TableConfig
    /\ dashConfig = TableConfig
    /\ savedConfig = JUndef
    /\ savePending = JUndef
    /\ toast = ""
    /\ InitForm
    /\ fetched \in {l \in FetchedLists : Len(l) = 1}
    /\ stale = FALSE
    /\ searchQuery = ""
    /\ displayed = fetched
    /\ showCreateForm = FALSE
    /\ editingRecord = JNull
    /\ formData = JUndef
    /\ showUploadModal = FALSE
    /\ uploadRecordId = ""
    /\ availableFields = << >>
    /\ selectedFile = JNull
    /\ inflight = << >>
    /\ lastCall = NoCall

SpecSubmit == InitSubmit /\ [][NextSubmit]_vars

UploadFieldNames == {"Notes", "Screenshot", "Attachments", "Documents", "Topic"}

UploadFieldLists == UNION {[1..n -> UploadFieldNames] : n \in 0..MaxFields}

\* an UploadModal open for a record, its availableFields prop drawn from the lists
InitUpload ==
    /\ config = TableConfig
    /\ remote = <<SeedRecord>>
    /\ last = NoRequest
    /\ pending = << >>
    /\ lastSave = ConfigBody("patA", "app1", "Bugs")
    /\ card = TableConfig
    /\ dashConfig = TableConfig
    /\ savedConfig = JUndef
    /\ savePending = JUndef
    /\ toast = ""
    /\ InitForm
    /\ fetched = <<Rec1>>
    /\ stale = FALSE
    /\ searchQuery = ""
    /\ displayed = fetched
    /\ showCreateForm = FALSE
    /\ editingRecord = JNull
    /\ formData = JUndef
    /\ showUploadModal = TRUE
    /\ uploadRecordId = "rec1"
    /\ availableFields \in UploadFieldLists
    /\ selectedFile = JNull
    /\ inflight = << >>
    /\ lastCall = NoCall

NextUpload ==
    \/ \E file \in Files : handleFileSelect(file)
    \/ removeFile
    \/ UploadModal_handleUpload
    \/ \E i \in 1..Len(inflight) : uploadSuccess(i)
    \/ \E i \in 1..Len(inflight) : uploadError(i)
    \/ closeUpload

SpecUpload == InitUpload /\ [][NextUpload]_vars

\* the three components together, UploadModal given the field names of a table
InitClient ==
    /\ config = TableConfig
    /\ remote = <<SeedRecord>>
    /\ last = NoRequest
    /\ pending = << >>
    /\ lastSave = ConfigBody("patA", "app1", "Bugs")
    /\ card = TableConfig
    /\ dashConfig = TableConfig
    /\ savedConfig = JUndef
    /\ savePending = JUndef
    /\ toast = ""
    /\ InitForm
    /\ fetched \in {l \in FetchedLists : Len(l) = 1}
    /\ stale = FALSE
    /\ searchQuery = ""
    /\ displayed = fetched
    /\ showCreateForm = FALSE
    /\ editingRecord = JNull
    /\ formData = JUndef
    /\ showUploadModal = FALSE
    /\ uploadRecordId = ""
    /\ availableFields = <<"Notes", "Photo">>
    /\ selectedFile = JNull
    /\ inflight = << >>
    /\ lastCall = NoCall

NextClient ==
    \/ \E r \in RecordPool : handleDelete(r.id)
    \/ \E i \in 1..Len(inflight) : deleteSuccess(i)
    \/ \E i \in 1..Len(inflight) : deleteError(i)
    \/ openCreateForm
    \/ \E r \in RecordPool : handleEdit(r)
    \/ closeForm
    \/ \E i \in 1..Len(fieldNames), value \in TypedValues : handleChange(fieldNames[i], value)
    \/ handleSubmit
    \/ \E i \in 1..Len(inflight) : createSuccess(i)
    \/ \E i \in 1..Len(inflight) : updateSuccess(i)
    \/ \E i \in 1..Len(inflight) : formError(i)
    \/ \E r \in RecordPool : handleUpload(r.id)
    \/ \E file \in Files : handleFileSelect(file)
    \/ removeFile
    \/ UploadModal_handleUpload
    \/ \E i \in 1..Len(inflight) : uploadSuccess(i)
    \/ \E i \in 1..Len(inflight) : uploadError(i)
    \/ closeUpload

SpecClient == InitClient /\ [][NextClient]_vars

\* the three components with the records query: every mutation, its answer, and the
\* refetch that an invalidation of the active query starts
\* the answers of the records query checked with all the mutations together
Answers == {<< >>, <<Rec1>>}

NextApp ==
    \/ \E r \in RecordPool : handleDelete(r.id)
    \/ \E i \in 1..Len(inflight) : deleteSuccess(i)
    \/ \E i \in 1..Len(inflight) : deleteError(i)
    \/ openCreateForm
    \/ createFirstRecord
    \/ \E r \in RecordPool : handleEdit(r)
    \/ \E i \in 1..Len(fieldNames) : handleChange(fieldNames[i], " n2 ")
    \/ handleSubmit
    \/ \E i \in 1..Len(inflight) : createSuccess(i)
    \/ \E i \in 1..Len(inflight) : updateSuccess(i)
    \/ \E i \in 1..Len(inflight) : formError(i)
    \/ \E r \in RecordPool : handleUpload(r.id)
    \/ \E file \in Files : handleFileSelect(file)
    \/ UploadModal_handleUpload
    \/ \E i \in 1..Len(inflight) : uploadSuccess(i)
    \/ \E i \in 1..Len(inflight) : uploadError(i)
    \/ \E records \in Answers : refetch(records)

\* invalidateQueries refetches the query while RecordsTable observes it, and the
\* proxy answers the GET in the end
SpecApp ==
    InitClient /\ [][NextApp]_vars /\ WF_vars(\E records \in Answers : refetch(records))

\* the form dialogs over every fetched list, records of different shapes included
SpecEdit == InitTable /\ [][NextSubmit]_vars

NextSearch ==
    \/ \E q \in SearchTexts : setSearchQuery(q)
    \/ refreshData
    \/ \E records \in FetchedLists : refetch(records)

SpecSearch == InitTable /\ [][NextSearch]_vars

(***************************************************************************)
(* Properties of the proxy and the configuration holder.                   *)
(***************************************************************************)
NotConfigured == ErrorBody("Airtable not configured")

Success(u) == u.kind = "response" /\ u.status \in 200..299

\* C1: a proxy operation handled while no Configuration has ever been saved answers
\* 400 with the error 'Airtable not configured' and sends nothing to the external API.
C1_NotConfigured ==
    (last.handler \in ProxyHandlers /\ lastSave = JUndef) =>
        /\ last.status = 400
        /\ last.resBody = NotConfigured
        /\ last.sent = << >>

C1_Witness ==
    /\ last.handler = "update"
    /\ last.path = <<"Bugs", "rec1">>
    /\ last.body = Obj1("fields", JObj(StatusClosed))
    /\ lastSave = JUndef
    /\ last.status = 400

\* C2: when the external API answers a proxy operation with a non-success status s, the
\* proxy answers with status s and the external error text, after exactly one request.
C2_UpstreamErrorRelayed ==
    (last.handler \in ProxyHandlers /\ last.upstream.kind = "response"
        /\ ~Success(last.upstream)) =>
        /\ last.status = last.upstream.status
        /\ last.resBody = ErrorBody("Airtable API error: " \o last.upstream.text)
        /\ Len(last.sent) = 1

C2_Witness ==
    /\ last.handler = "attach"
    /\ last.upstream.kind = "response"
    /\ last.upstream.status = 422
    /\ last.status = 422

\* C3: a transport failure (the call to the external API throws) is answered with 500
\* by each of the five proxy operations.
C3_TransportFailure500 ==
    (last.handler \in ProxyHandlers /\ last.upstream.kind = "throw") => last.status = 500

\* C4: GET /config answers the Configuration of the most recent successful save, all
\* three components from that save, and null before the first save.
C4_GetReturnsLastSave ==
    last.handler = "getConfig" =>
        /\ last.status = 200
        /\ last.resBody = IF lastSave = JUndef THEN JNull
                          ELSE JObj([k \in ConfigKeys |-> lastSave.v[k]])

C4_Witness ==
    /\ last.handler = "getConfig"
    /\ lastSave = JObj([apiKey |-> JStr("patB"), baseId |-> JStr("app2"),
                        tableName |-> JStr("Bugs"), note |-> JStr("x")])
    /\ last.resBody = ConfigBody("patB", "app2", "Bugs")

\* C6: the Configuration Holder is unset or holds a key, a base identifier and a table
\* name that are all non-empty strings.
C6_HolderWellFormed ==
    config = Unset \/
        /\ DOMAIN config = ConfigKeys
        /\ \A k \in ConfigKeys : config[k] \in STRING /\ config[k] # ""

C6_Witness ==
    /\ config # Unset
    /\ last.handler = "postConfig"
    /\ last.status = 400

C7Valid(body) ==
    /\ body.t = "object"
    /\ \A k \in ConfigKeys : k \in DOMAIN body.v /\ body.v[k].t = "string" /\ body.v[k].v # ""

\* C7: POST /config with an invalid body (a component missing, empty or not a string)
\* answers 400 and leaves the holder as it was; with a valid body it answers
\* {success: true}.
C7_PostConfig ==
    [][last'.handler = "postConfig" =>
          IF C7Valid(last'.body)
          THEN last'.status = 200 /\ last'.resBody = JObj([success |-> JBool(TRUE)])
          ELSE last'.status = 400 /\ config' = config]_vars

C7_Witness ==
    /\ last.handler = "postConfig"
    /\ last.body = JObj([apiKey |-> JStr("patA"), baseId |-> JStr("app1")])
    /\ last.status = 400
    /\ config # Unset

C8Ref(body) == JObj([k \in (DOMAIN body.v) \cap {"url", "filename"} |-> body.v[k]])

\* C8: attachFile sends one PATCH whose field map holds only the named field, set to the
\* one-element list [ref]; once the external API accepts it, the record's field holds
\* exactly that attachment.
C8_AttachReplaces ==
    /\ (last.handler = "attach" /\ config # Unset /\ Has(last.body, "url")
            /\ last.body.v["url"] \in {JStr(UrlA), JStr(UrlB)}
            /\ (Has(last.body, "filename") => last.body.v["filename"].t = "string")) =>
           Len(last.sent) = 1
    /\ (last.handler = "attach" /\ last.sent # << >>) =>
        /\ Len(last.sent) = 1
        /\ last.sent[1].method = "PATCH"
        /\ last.sent[1].url[3] = last.path[2]
        /\ last.sent[1].body =
               Obj1("fields", Obj1(last.path[4], JArr(<<C8Ref(last.body)>>)))
        /\ Success(last.upstream) =>
               \E i \in 1..Len(remote) :
                   /\ remote[i].id = last.path[2]
                   /\ remote[i].fields[last.path[4]] = JArr(<<C8Ref(last.body)>>)

C8_Witness ==
    /\ last.handler = "attach"
    /\ last.path = <<"Bugs", "rec1", "attachment", "Photo">>
    /\ Success(last.upstream)
    /\ remote[1].fields["Photo"] = JArr(<<JObj([url |-> JStr(UrlA), filename |-> JStr("a.png")])>>)
    /\ remote[1].fields["Notes"] = JStr("n1")

\* C9: update forwards exactly the given field map with PATCH; when it succeeds, every
\* field of the record that is not in the map keeps its value, and no other record
\* changes.
C9_PartialUpdate ==
    [][/\ (last'.handler = "update" /\ config' # Unset /\ Has(last'.body, "fields")
              /\ last'.body.v["fields"].t = "object") =>
             Len(last'.sent) = 1
       /\ (last'.handler = "update" /\ last'.sent # << >>) =>
          /\ Len(last'.sent) = 1
          /\ last'.sent[1].method = "PATCH"
          /\ last'.sent[1].url[3] = last'.path[2]
          /\ last'.sent[1].body = Obj1("fields", last'.body.v["fields"])
          /\ Success(last'.upstream) =>
                 /\ Len(remote') = Len(remote)
                 /\ \A i \in 1..Len(remote) :
                        /\ remote'[i].id = remote[i].id
                        /\ \A k \in DOMAIN remote[i].fields :
                               (remote[i].id # last'.path[2]
                                   \/ k \notin DOMAIN last'.body.v["fields"].v) =>
                                   /\ k \in DOMAIN remote'[i].fields
                                   /\ remote'[i].fields[k] = remote[i].fields[k]
                        /\ \A k \in DOMAIN remote'[i].fields :
                               k \in DOMAIN remote[i].fields
                                   \/ (remote[i].id = last'.path[2]
                                          /\ k \in DOMAIN last'.body.v["fields"].v)]_vars

C9_Witness ==
    /\ last.handler = "update"
    /\ Success(last.upstream)
    /\ last.body = Obj1("fields", JObj(StatusClosed))
    /\ remote[1].fields = [Status |-> JStr("Closed"), Notes |-> JStr("n1"),
                           Photo |-> SeedRecord.fields["Photo"]]

\* C5: after the user activates Clear, the Configuration Holder is unset.
C5_ClearUnsetsHolder == toast = "Configuration Cleared" => config = Unset

(***************************************************************************)
(* Properties of the record form.                                          *)
(***************************************************************************)
\* C10: the editable-fields list holds exactly the names of the list that match no
\* read-only pattern, in the input order.
C10_EditableFields ==
    rendered =>
        LET kept == {i \in 1..Len(fields) : ~isReadOnlyField(fields[i])} IN
        /\ Len(editableFields) = Cardinality(kept)
        /\ \A i \in kept : editableFields[Cardinality({j \in kept : j <= i})] = fields[i]

C10_Witness ==
    /\ rendered
    /\ fields = <<"Email", "Notes">>
    /\ editableFields = <<"Notes">>

\* C11: no field name that the upload classifier puts in its image set or its
\* general-attachment set is rendered as an editable input of the record form.
C11_AttachmentFieldsReadOnly ==
    rendered =>
        \A i \in 1..Len(inputs) :
            ~(isImageField(inputs[i].field) \/ isGeneralAttachmentField(inputs[i].field))


\* C16: the form renders one input per editable field, in order: the status selector
\* if the lower-cased name contains "status"; else the priority selector if it contains
\* "priority"; else a text area if it contains "description" or "notes"; else a text
\* input. A read-only field gets no input, whatever keyword its name contains.
C16_OneInputPerEditableField ==
    rendered =>
        LET kept == {i \in 1..Len(fields) : ~isReadOnlyField(fields[i])} IN
        /\ Len(inputs) = Cardinality(kept)
        /\ \A i \in kept :
               LET input == inputs[Cardinality({j \in kept : j <= i})]
                   lower == toLowerCase(fields[i])
                   status == Includes(lower, "status")
                   priority == Includes(lower, "priority")
                   text == Includes(lower, "description") \/ Includes(lower, "notes") IN
               /\ input.field = fields[i]
               /\ status => input.kind = "select:Open|In Progress|Closed"
               /\ (~status /\ priority) => input.kind = "select:Low|Medium|High"
               /\ (~status /\ ~priority /\ text) => input.kind = "textarea"
               /\ (~status /\ ~priority /\ ~text) => input.kind = "input"

C16_Witness ==
    /\ rendered
    /\ fields = <<"Priority Level", "Status Notes">>
    /\ inputs = <<[field |-> "Status Notes", kind |-> "select:Open|In Progress|Closed"]>>

(***************************************************************************)
(* Properties of the upload dialog.                                        *)
(***************************************************************************)
C12Has(field, words) == LET lower == toLowerCase(field) IN \E w \in words : Includes(lower, w)

C12Target(fs) ==
    LET image == {i \in 1..Len(fs) :
                     C12Has(fs[i], {"image", "photo", "picture", "screenshot", "pic"})}
        general == {i \in 1..Len(fs) :
                       C12Has(fs[i], {"attachment", "file", "document", "upload"})} IN
    IF image # {} THEN fs[CHOOSE i \in image : \A j \in image : i <= j]
    ELSE IF general # {} THEN fs[CHOOSE i \in general : \A j \in general : i <= j]
    ELSE "Attachments"

\* C12: for every list of supplied field names the chosen upload target is the first
\* name matching an image term if any does, else the first name matching a
\* general-attachment term if any does, else "Attachments"; an upload that is sent
\* names that target.
C12_UploadTarget ==
    LET target == C12Target(availableFields) IN
    /\ attachmentFieldName(availableFields) = target
    /\ lastCall.method = "POST" => lastCall.path[4] = target

C12_Witness ==
    /\ availableFields = <<"Attachments", "Screenshot">>
    /\ lastCall.method = "POST"
    /\ lastCall.path = <<"Bugs", "rec1", "attachment", "Screenshot">>

\* C13: in the upload dialog opened from the records table, activating Upload with a
\* file selected sends an attachFile request for that record, whose target field is
\* the one the ranking chooses among the table's field names.
C13_TableUploadSendsAttach ==
    [][UploadModal_handleUpload =>
          /\ Len(inflight') = Len(inflight) + 1
          /\ inflight'[Len(inflight')].kind = "upload"
          /\ lastCall'.method = "POST"
          /\ lastCall'.path = <<TableConfig.tableName, uploadRecordId, "attachment",
                                attachmentFieldName(fieldNames)>>]_vars

\* C14: a file larger than 10 MiB is never selected and never sent: selecting it leaves
\* the selection as it was and issues no request; a file of at most 10 MiB becomes the
\* selected file.
C14_SizeCap ==
    [][/\ \A file \in Files :
              handleFileSelect(file) =>
                  /\ inflight' = inflight /\ lastCall' = lastCall
                  /\ IF file.size > 10 * 1024 * 1024
                     THEN selectedFile' = selectedFile
                     ELSE selectedFile' # JNull /\ selectedFile'.file = file
       /\ selectedFile' # JNull => selectedFile'.file.size <= 10 * 1024 * 1024
       /\ lastCall'.method = "POST" =>
              \E file \in Files :
                  /\ file.size <= 10 * 1024 * 1024
                  /\ lastCall'.body.v["filename"] = JStr(file.name)]_vars

C14_Witness ==
    /\ selectedFile # JNull
    /\ selectedFile.file = [name |-> "a.png", size |-> 10485760]
    /\ selectedFile.size = "10 MB"
    /\ toast = "File Too Large"
    /\ lastCall = NoCall

(***************************************************************************)
(* Properties of the record form's submission and of the records table.    *)
(***************************************************************************)
C15NonEmpty(data) ==
    {k \in DOMAIN data :
        /\ ~isReadOnlyField(k)
        /\ data[k].t \notin {"null", "undefined"}
        /\ ~(data[k].t = "string" /\ data[k].v = "")}

\* t is s without its leading and trailing whitespace
C15Trimmed(s, t) ==
    \E i \in 1..(Len(s) + 1) : \E j \in (i - 1)..Len(s) :
        /\ t = SubSeq(s, i, j)
        /\ \A k \in (1..(i - 1)) \cup ((j + 1)..Len(s)) : Char(s, k) = " "
        /\ t # "" => Char(t, 1) # " " /\ Char(t, Len(t)) # " "

\* C15: on submitting the record form, if no editable field has a non-empty value no
\* request is issued; otherwise exactly one create or update request is issued, and
\* every string in its field map is the form's value without leading and trailing
\* whitespace.
C15_SubmitGuard ==
    [][handleSubmit =>
          IF C15NonEmpty(formData.v) = {}
          THEN inflight' = inflight /\ lastCall' = lastCall
          ELSE /\ Len(inflight') = Len(inflight) + 1
               /\ inflight'[Len(inflight')].kind \in {"create", "update"}
               /\ lastCall'.method \in {"POST", "PATCH"}
               /\ LET sent == lastCall'.body.v["fields"].v IN
                  /\ DOMAIN sent = C15NonEmpty(formData.v)
                  /\ \A k \in DOMAIN sent :
                         IF formData.v[k].t = "string"
                         THEN sent[k].t = "string" /\ C15Trimmed(formData.v[k].v, sent[k].v)
                         ELSE sent[k] = formData.v[k]]_vars

C15_Witness ==
    /\ editingRecord # JNull
    /\ formData = JObj([Notes |-> JStr(" n2 "), Count |-> JNum(7),
                        Photo |-> JArr(<<Obj1("url", JStr(UrlA))>>)])
    /\ lastCall = Call("PATCH", <<"Bugs", "rec1">>, Obj1("fields", JObj([Notes |-> JStr("n2")])))
    /\ Len(inflight) = 1

C17Expected(records, text, rows) ==
    LET hit == {i \in 1..Len(records) :
                   \/ text = ""
                   \/ \E k \in DOMAIN records[i].fields :
                          Includes(toLowerCase(String(records[i].fields[k])),
                                   toLowerCase(text))} IN
    /\ Len(rows) = Cardinality(hit)
    /\ \A i \in hit : rows[Cardinality({j \in hit : j <= i})] = records[i]

\* C17: the rows displayed are exactly the fetched records, in fetch order, of which
\* some field value contains the search text as a substring, letter case ignored;
\* with an empty search text every fetched record is displayed; changing the search
\* text issues no request.
C17_SearchFilter ==
    [][/\ C17Expected(fetched, searchQuery, displayed)
       /\ C17Expected(fetched', searchQuery', displayed')
       /\ searchQuery' # searchQuery =>
              inflight' = inflight /\ lastCall' = lastCall /\ stale' = stale
                  /\ fetched' = fetched]_vars

C17_Witness ==
    /\ fetched = <<Rec2, Rec1>>
    /\ searchQuery = "OPEN"
    /\ displayed = <<Rec1>>

ErrorTitles == {"Error", "Upload Failed"}

\* C18: when a create, update, delete or upload request fails, the form values, the
\* open dialog, the selected file and the displayed records are after the error
\* report what they were before the answer, no refetch is triggered, and only an
\* error notification is added.
C18_FailureKeepsUiState ==
    [][(Len(inflight') < Len(inflight) /\ toast' \in ErrorTitles) =>
          /\ formData' = formData
          /\ showCreateForm' = showCreateForm
          /\ editingRecord' = editingRecord
          /\ showUploadModal' = showUploadModal
          /\ selectedFile' = selectedFile
          /\ uploadRecordId' = uploadRecordId
          /\ fetched' = fetched
          /\ displayed' = displayed
          /\ searchQuery' = searchQuery
          /\ stale' = stale
          /\ lastCall' = lastCall]_vars

C18_Witness ==
    /\ toast = "Upload Failed"
    /\ inflight = << >>
    /\ showUploadModal
    /\ selectedFile # JNull
    /\ ~stale

\* C19: the client never has two mutation requests (create, update, delete, upload)
\* in flight at the same time.
C19_OneRequestInFlight == Len(inflight) <= 1

\* C20: the server's only state, the Configuration Holder, is left unchanged by list,
\* create, update, delete and attachFile, whether they succeed or fail; only a
\* successful POST /config changes it.
C20_OnlyConfigStored ==
    [][/\ last'.handler \in ProxyHandlers => config' = config
       /\ config' # config => last'.handler = "postConfig" /\ last'.status = 200]_vars

C20_Witness ==
    /\ last.handler = "create"
    /\ Success(last.upstream)
    /\ Len(remote) = 1
    /\ config = [apiKey |-> "patA", baseId |-> "app1", tableName |-> "Bugs"]

(***************************************************************************)
(* Further properties of the proxy's routes.                               *)
(***************************************************************************)
C22Shaped(handler, body) ==
    IF handler = "attach"
    THEN Has(body, "url") /\ body.v["url"].t = "string" /\ body.v["url"].v \in {UrlA, UrlB}
    ELSE Has(body, "fields") /\ body.v["fields"].t = "object"

\* C22: with a Configuration set, a create, update or attachFile request whose body
\* has not the expected shape (fields not a map; url missing or not a valid URI) is
\* answered 400 and nothing is sent to the external API.
C22_MalformedBody400 ==
    (last.handler \in {"create", "update", "attach"} /\ config # Unset
        /\ ~C22Shaped(last.handler, last.body)) =>
        /\ last.status = 400
        /\ last.sent = << >>

C22_Witness ==
    /\ config # Unset
    /\ last.handler = "attach"
    /\ last.body = Obj1("filename", JStr("a.png"))
    /\ last.status = 400
    /\ last.sent = << >>

\* C30: for every table name t, the name "config" included, GET /t with a
\* Configuration set sends one list request for table t to the external API, and
\* POST /t with a field map sends one create request for table t.
C30_TableNamedInPath ==
    /\ (last.method = "GET" /\ Len(last.path) = 1 /\ config # Unset) =>
        /\ Len(last.sent) = 1
        /\ last.sent[1].method = "GET"
        /\ last.sent[1].url[2] = last.path[1]
    /\ (last.method = "POST" /\ Len(last.path) = 1 /\ config # Unset
            /\ Has(last.body, "fields") /\ last.body.v["fields"].t = "object") =>
        /\ Len(last.sent) = 1
        /\ last.sent[1].method = "POST"
        /\ last.sent[1].url[2] = last.path[1]

(***************************************************************************)
(* Further properties of the records table and its dialogs.                *)
(***************************************************************************)
\* C21: the records table shows no column for a field name that the read-only
\* classifier takes for computed.
C21_ComputedColumnsHidden ==
    \A i \in 1..Len(fieldNames) : ~isReadOnlyField(fieldNames[i])

\* C24: no create or update payload of the record form holds a field name classified
\* read-only, also when a record whose values include read-only fields is edited.
C24_NoReadOnlyFieldSent ==
    lastCall.method \in {"POST", "PATCH"} =>
        \A k \in DOMAIN lastCall.body.v["fields"].v : ~isReadOnlyField(k)

C24_Witness ==
    /\ editingRecord = Rec1
    /\ "Count" \in DOMAIN formData.v /\ "Photo" \in DOMAIN formData.v
    /\ lastCall.method = "PATCH"
    /\ lastCall.body = Obj1("fields", JObj([Notes |-> JStr("Open Log")]))

\* C29: no create or update payload of the record form holds an empty string: a
\* field left empty or filled with whitespace only is not sent.
C29_NoEmptyStringSent ==
    lastCall.method \in {"POST", "PATCH"} =>
        \A k \in DOMAIN lastCall.body.v["fields"].v :
            lastCall.body.v["fields"].v[k] # JStr("")

\* C28: the keys of an update payload are among the editable fields the edit form
\* renders as inputs.
C28_UpdateKeysWereShown ==
    [][(handleSubmit /\ editingRecord # JNull /\ Len(inflight') > Len(inflight)) =>
          \A k \in DOMAIN lastCall'.body.v["fields"].v :
              \E i \in 1..Len(filterEditable(fieldNames)) :
                  filterEditable(fieldNames)[i] = k]_vars

\* C27: when the fetched collection is empty, activating Create First Record makes
\* the create-record form visible.
C27_CreateFirstRecordShowsForm ==
    [][createFirstRecord => (FormOpen' /\ formData' = JObj(<< >>))]_vars

SuccessTitles == {"Record Created", "Record Updated", "Record Deleted", "File Uploaded"}

C23Whole(body) == [k \in ConfigKeys |-> body.v[k].v]

\* C23: when two valid saves are processed concurrently, the holder holds one of the
\* two submitted Configurations in its entirety, the one written last, and never a
\* mixture: the holder changes only when a save writes, and then to all three
\* components of that save's body.
C23_LastWriteWins ==
    [][/\ config' # config =>
              /\ Len(pending') = Len(pending) + 1
              /\ pending'[Len(pending')].op = "save"
              /\ config' = C23Whole(pending'[Len(pending')].body)
       /\ (Len(pending') = Len(pending) + 1 /\ pending'[Len(pending')].op = "save") =>
              config' = C23Whole(pending'[Len(pending')].body)]_vars

C23_Witness ==
    /\ Len(pending) = 2
    /\ pending[1].op = "save" /\ pending[1].body = ConfigBody("patA", "app1", "Bugs")
    /\ pending[2].op = "save" /\ pending[2].body = ConfigBody("patB", "app2", "config")
    /\ config = [apiKey |-> "patB", baseId |-> "app2", tableName |-> "config"]

\* C26: every request a proxy operation sends to the external API carries the key and
\* the base of one saved Configuration, the one the holder held when the operation
\* read it; a save written while the operation is suspended changes neither.
C26_RequestFromOneConfig ==
    [][/\ (Len(pending') = Len(pending) + 1 /\ pending'[Len(pending')].op = "proxy") =>
              pending'[Len(pending')].cfg = config
       /\ config' # config => \A i \in 1..Len(pending) : pending'[i] = pending[i]
       /\ (Len(pending') < Len(pending) /\ last'.sent # << >>) =>
              \E i \in 1..Len(pending) :
                  /\ pending' = Remove(pending, i)
                  /\ pending[i].op = "proxy"
                  /\ pending[i].cfg # Unset
                  /\ pending[i].cfg \in {C23Whole(body) : body \in ValidConfigs}
                  /\ last'.sent[1].auth = "Bearer " \o pending[i].cfg.apiKey
                  /\ last'.sent[1].url[1] = pending[i].cfg.baseId]_vars

C26_Witness ==
    /\ pending = << >>
    /\ config = [apiKey |-> "patB", baseId |-> "app2", tableName |-> "config"]
    /\ last.handler = "list"
    /\ last.sent # << >>
    /\ last.sent[1].auth = "Bearer patA"
    /\ last.sent[1].url[1] = "app1"

====
